---- MODULE Spec2Model ----
(***************************************************************************)
(* Model of beluga's initial-value kernel (beluga/ivpsol/ivpsol.py):       *)
(* the Trajectory container, integrate_quads, reconstruct and Propagator.  *)
(*                                                                         *)
(* Real numbers are exact rationals <<num, den>> (den > 0, lowest terms).  *)
(* Sample times, query times and stored state samples are integers; every  *)
(* interpolated state, integrand value and quadrature is a rational.       *)
(* Python's None is the empty tuple and a present value x is <<x>>.        *)
(* Arrays are 1-based here; ind0/indf keep the source's 0-based values and *)
(* are converted where the array is indexed.                               *)
(***************************************************************************)
EXTENDS Integers, Sequences, FiniteSets, TLC

\* Largest sample time: sample times are drawn from 0..MaxT.
MaxT == 2
\* Largest stored state value: state samples are drawn from 0..MaxY.
MaxY == 1

VARIABLES heap, gamma, ret
vars == <<heap, gamma, ret>>

-----------------------------------------------------------------------------
(* Exact rational arithmetic                                               *)

Abs(a) == IF a < 0 THEN -a ELSE a

RECURSIVE Gcd(_, _)
Gcd(a, b) == IF b = 0 THEN a ELSE Gcd(b, a % b)

Norm(n, d) ==
    LET g == Gcd(Abs(n), Abs(d))
        s == IF d < 0 THEN -1 ELSE 1
    IN  <<(s * n) \div g, (s * d) \div g>>

R(i) == <<i, 1>>
RAdd(a, b) == Norm(a[1] * b[2] + b[1] * a[2], a[2] * b[2])
RSub(a, b) == Norm(a[1] * b[2] - b[1] * a[2], a[2] * b[2])
RMul(a, b) == Norm(a[1] * b[1], a[2] * b[2])
RDiv(a, b) == Norm(a[1] * b[2], a[2] * b[1])
RCeil(a) == -((-a[1]) \div a[2])

\* Component-wise vector operations with numpy's broadcasting: an operand
\* of length 1 is stretched to the length of the other.
At(v, c) == IF Len(v) = 1 THEN v[1] ELSE v[c]
Width(v, w) == IF Len(v) >= Len(w) THEN Len(v) ELSE Len(w)
VAdd(v, w) == [c \in 1..Width(v, w) |-> RAdd(At(v, c), At(w, c))]
VSub(v, w) == [c \in 1..Width(v, w) |-> RSub(At(v, c), At(w, c))]
VZero(m) == [c \in 1..m |-> R(0)]

-----------------------------------------------------------------------------
(* Python values                                                           *)

None == <<>>
Some(x) == <<x>>

Return(v) == [kind |-> "return", val |-> v]
Raise(e) == [kind |-> "raise", err |-> e]

OutOfBounds == "Time span out of integration bounds."

\* F applied to the value of v, with v evaluated once (a local variable
\* assigned once and read many times).
Bind(v, F(_)) == CHOOSE r \in {F(x) : x \in {v}} : TRUE

\* seq[i] for a 0-based index i that may be negative (Python wraps it).
PyIndex(seq, i) == IF i < 0 THEN seq[Len(seq) + i + 1] ELSE seq[i + 1]

\* seq[a:b] for 0 <= a, 0 <= b <= len(seq).
PySlice(seq, a, b) == IF a >= b THEN <<>> ELSE SubSeq(seq, a + 1, b)

-----------------------------------------------------------------------------
(* numpy.interp(x, xp, fp): piecewise linear, clamped to the end values.   *)

interp(x, xp, fp) ==
    LET n == Len(xp) IN
    IF x < xp[1] THEN R(fp[1])
    ELSE IF x >= xp[n] THEN R(fp[n])
    ELSE LET j == CHOOSE k \in 1..(n - 1) : xp[k] <= x /\ x < xp[k + 1]
             slope == Norm(fp[j + 1] - fp[j], xp[j + 1] - xp[j])
         IN  RAdd(RMul(slope, R(x - xp[j])), R(fp[j]))

-----------------------------------------------------------------------------
(* class Trajectory                                                        *)

\* Trajectory.__new__(cls, *args): the first four positional arguments
\* become t, y, q, u; the fields not given stay None.
Trajectory_new(args) ==
    LET l == Len(args) IN
    [t |-> IF l >= 1 THEN Some(args[1]) ELSE None,
     y |-> IF l >= 2 THEN Some(args[2]) ELSE None,
     q |-> IF l >= 3 THEN Some(args[3]) ELSE None,
     u |-> IF l >= 4 THEN Some(args[4]) ELSE None]

\* Column ii (1-based) of a 2-D state array: self.y.T[ii].
Column(y, ii) == [k \in 1..Len(y.data) |-> y.data[k][ii]]

\* Faulty variant of interp, continuing the first and the last segment
\* beyond the samples instead of clamping.
interp_extrapolating(x, xp, fp) ==
    LET n == Len(xp) IN
    IF n = 1 THEN R(fp[1])
    ELSE LET j == IF x < xp[1] THEN 1
                  ELSE IF x >= xp[n] THEN n - 1
                  ELSE CHOOSE k \in 1..(n - 1) : xp[k] <= x /\ x < xp[k + 1]
             slope == Norm(fp[j + 1] - fp[j], xp[j + 1] - xp[j])
         IN  RAdd(RMul(slope, R(x - xp[j])), R(fp[j]))

\* Faulty variant of Trajectory_call: the state is extrapolated linearly
\* outside the sampled times.
Trajectory_call_extrapolating(self, tau) ==
    IF self.t = None THEN Raise("TypeError")
    ELSE IF Len(self.t[1]) = 0 THEN Return(None)
    ELSE IF self.y = None THEN Raise("AttributeError")
    ELSE LET y == self.y[1]
             dim == IF Len(y.shape) = 1 THEN 1 ELSE y.shape[2]
         IN  IF dim = 1
             THEN IF Len(y.shape) = 1
                  THEN Return(<< <<interp_extrapolating(tau, self.t[1], y.data)>>,
                                 None, None >>)
                  ELSE Raise("ValueError")
             ELSE Return(<< [ii \in 1..dim |->
                               interp_extrapolating(tau, self.t[1], Column(y, ii))],
                            None, None >>)

\* Trajectory.__call__(self, t): (y, q, u) at time tau, or None for an
\* empty time sequence.  len(self.t) is taken of the field itself, and a
\* 2-D state array with one column goes to numpy.interp whole, which
\* accepts 1-D sample arrays only.
Trajectory_call(self, tau) ==
    IF self.t = None THEN Raise("TypeError")
    ELSE IF Len(self.t[1]) = 0 THEN Return(None)
    ELSE IF self.y = None THEN Raise("AttributeError")
    ELSE LET y == self.y[1]
             dim == IF Len(y.shape) = 1 THEN 1 ELSE y.shape[2]
         IN  IF dim = 1
             THEN IF Len(y.shape) = 1
                  THEN Return(<< <<interp(tau, self.t[1], y.data)>>, None, None >>)
                  ELSE Raise("ValueError")
             ELSE Return(<< [ii \in 1..dim |-> interp(tau, self.t[1], Column(y, ii))],
                            None, None >>)

\* Trajectory.__len__(self)
Trajectory_len(self) == IF self.t = None THEN 0 ELSE Len(self.t[1])

-----------------------------------------------------------------------------
(* Integrands quad(t, y) -> dq/dt supplied by the caller                   *)

Quads == {"unit", "rate", "state"}

\* unit: [1];  rate: [2 t];  state: the state vector y itself.
quadfun(name, t, y) ==
    IF name = "unit" THEN <<R(1)>>
    ELSE IF name = "rate" THEN <<R(2 * t)>>
    ELSE y

-----------------------------------------------------------------------------
(* scipy.integrate.simps(y, x=x), even='avg', along the sample axis        *)

\* One Simpson panel over the points k, k+1, k+2 (0-based) of a
\* non-uniform grid, as in scipy's _basic_simps.
SimpsPanel(y, x, k) ==
    LET h0 == R(x[k + 2] - x[k + 1])
        h1 == R(x[k + 3] - x[k + 2])
        hsum == RAdd(h0, h1)
        hprod == RMul(h0, h1)
        h0divh1 == RDiv(h0, h1)
    IN  RMul(RDiv(hsum, R(6)),
             RAdd(RAdd(RMul(y[k + 1], RSub(R(2), RDiv(R(1), h0divh1))),
                       RMul(y[k + 2], RDiv(RMul(hsum, hsum), hprod))),
                  RMul(y[k + 3], RSub(R(2), h0divh1))))

\* _basic_simps(y, start, stop, x, dx, axis): the panels at start,
\* start+2, ... below stop; the slices are empty when stop is negative.
RECURSIVE basic_simps(_, _, _, _)
basic_simps(y, start, stop, x) ==
    IF stop < 0 \/ start >= stop THEN R(0)
    ELSE RAdd(SimpsPanel(y, x, start), basic_simps(y, start + 2, stop, x))

\* simps of one component: y and x are sequences of the same length N.
simps1(y, x) ==
    LET N == Len(y) IN
    IF N % 2 = 0
    THEN LET last_dx == R(x[N] - x[N - 1])
             first_dx == R(x[2] - x[1])
             val == RAdd(RMul(RMul(Norm(1, 2), last_dx), RAdd(y[N], y[N - 1])),
                         RMul(RMul(Norm(1, 2), first_dx), RAdd(y[2], y[1])))
             result == RAdd(basic_simps(y, 0, N - 3, x), basic_simps(y, 1, N - 2, x))
         IN  RAdd(RDiv(result, R(2)), RDiv(val, R(2)))
    ELSE basic_simps(y, 0, N - 2, x)

\* simps(dq.T, x=x_interp): dq holds one integrand vector per grid point;
\* each component is integrated over the grid.
simps(dq, x) ==
    [c \in 1..Len(dq[1]) |-> simps1([k \in 1..Len(dq) |-> dq[k][c]], x)]

-----------------------------------------------------------------------------
(* integrate_quads(quadfun, tspan, gamma)                                  *)

\* The outcome carries, beside the value or the error, the evaluation grid
\* x_interp (None until assembled) and the times at which the integrand
\* was called, in order.
IQRaise(e, grid) == [kind |-> "raise", err |-> e, x_interp |-> grid, evals |-> <<>>]

\* Lines 196-210: the evaluation grid x_interp for a request that passed
\* the bounds checks, on the sample times t.
evaluation_grid(tspan, t) ==
    LET l == Len(t)
        x_set_temp == [i \in 1..l |-> i - 1]
        ind0 == RCeil(interp(tspan[1], t, x_set_temp))
        indf == RCeil(interp(tspan[2], t, x_set_temp))
        x_head == IF tspan[1] # PyIndex(t, ind0) THEN <<tspan[1]>> ELSE <<>>
        x_mid == PySlice(t, ind0, indf)
        x_tail == IF tspan[2] # PyIndex(t, indf - 1) THEN <<tspan[2]>> ELSE <<>>
    IN  x_head \o x_mid \o x_tail

\* Lines 212-226: the state at the first grid point, the integrand at
\* every grid point, Simpson's rule over the grid, plus q0 (zero when the
\* point query gives no quadrature, which is always).
integrate_on_grid(name, g, x_interp) ==
    IF Len(x_interp) = 0 THEN IQRaise("IndexError", Some(x_interp))
    ELSE Bind(Trajectory_call(g, x_interp[1]), LAMBDA first :
           IF first.kind = "raise" THEN IQRaise(first.err, Some(x_interp))
           ELSE Bind([k \in 1..Len(x_interp) |->
                        quadfun(name, x_interp[k], Trajectory_call(g, x_interp[k]).val[1])],
                     LAMBDA dq :
                  LET qf_m0 == simps(dq, x_interp)
                      q0 == IF first.val[2] = None THEN VZero(1) ELSE first.val[2]
                  IN  [kind |-> "return", val |-> VAdd(qf_m0, q0),
                       x_interp |-> Some(x_interp), evals |-> x_interp]))

\* Faulty variant of integrate_quads: the end of the time span is not
\* checked against the last sample.
integrate_quads_no_upper(name, tspan, g) ==
    IF g.t = None THEN IQRaise("TypeError", None)
    ELSE IF Len(g.t[1]) = 0 THEN IQRaise("IndexError", None)
    ELSE IF tspan[1] < g.t[1][1] THEN IQRaise(OutOfBounds, None)
    ELSE Bind(evaluation_grid(tspan, g.t[1]), LAMBDA x_interp :
           integrate_on_grid(name, g, x_interp))

integrate_quads(name, tspan, g) ==
    IF g.t = None THEN IQRaise("TypeError", None)
    ELSE IF Len(g.t[1]) = 0 THEN IQRaise("IndexError", None)
    ELSE IF tspan[1] < g.t[1][1] THEN IQRaise(OutOfBounds, None)
    ELSE IF tspan[2] > g.t[1][Len(g.t[1])] THEN IQRaise(OutOfBounds, None)
    ELSE Bind(evaluation_grid(tspan, g.t[1]), LAMBDA x_interp :
           integrate_on_grid(name, g, x_interp))

-----------------------------------------------------------------------------
(* reconstruct(quadfun, gamma)                                             *)

\* The loop body: temp_q = vstack((temp_q, temp_q[-1] + qf)) for each qf.
RECURSIVE vstack_loop(_, _)
vstack_loop(rows, qfs) ==
    IF qfs = <<>> THEN rows
    ELSE vstack_loop(Append(rows, VAdd(rows[Len(rows)], Head(qfs))), Tail(qfs))

\* temp_q when the loop of reconstruct ends: the row of the zero-width
\* integral at t[0], then one row per ii = 0 .. l-2 holding the previous
\* row plus integrate_quads over [t[ii], t[ii+1]]; or the error of the
\* first integrate_quads call that raises.
temp_q(name, g) ==
    LET t == g.t[1]
        l == Trajectory_len(g)
    IN  Bind(integrate_quads(name, <<t[1], t[1]>>, g), LAMBDA seed :
          IF seed.kind = "raise" THEN Raise(seed.err)
          ELSE Bind([ii \in 1..(l - 1) |-> integrate_quads(name, <<t[ii], t[ii + 1]>>, g)],
                    LAMBDA qf :
                 LET failed == {ii \in 1..(l - 1) : qf[ii].kind = "raise"} IN
                 IF failed # {}
                 THEN Raise(qf[CHOOSE ii \in failed : \A jj \in failed : ii <= jj].err)
                 ELSE Return(vstack_loop(<<seed.val>>, [ii \in 1..(l - 1) |-> qf[ii].val]))))

\* The quadrature history reconstruct assigns to the copy, or the error
\* it raises: q0 is read first, then gamma.t[0], then the loop runs.
reconstruct_q(name, g) ==
    IF g.q # None /\ Len(g.q[1]) = 0 THEN Raise("IndexError")
    ELSE LET q0 == IF g.q = None THEN VZero(1) ELSE g.q[1][1] IN
             IF g.t = None THEN Raise("TypeError")
             ELSE IF Len(g.t[1]) = 0 THEN Raise("IndexError")
             ELSE Bind(temp_q(name, g), LAMBDA tq :
                    IF tq.kind = "raise" THEN tq
                    ELSE Return([i \in 1..Len(tq.val) |-> VAdd(tq.val[i], q0)]))

\* The live objects: heap maps each object id to a Trajectory's fields.
\* An allocation takes the smallest id not in use; an object no name
\* refers to any more is dropped.
Fresh(h) == CHOOSE i \in 1..(Cardinality(DOMAIN h) + 1) :
                /\ i \notin DOMAIN h
                /\ \A j \in 1..(i - 1) : j \in DOMAIN h
Free(h, ids) == [i \in (DOMAIN h) \ ids |-> h[i]]

\* Faulty variant of reconstruct: no copy is made, q is assigned on the
\* input object and the input is returned.
reconstruct_in_place(name, h, self) ==
    Bind(reconstruct_q(name, h[self]), LAMBDA r :
      IF r.kind = "raise"
      THEN [heap |-> h, res |-> r]
      ELSE [heap |-> [h EXCEPT ![self].q = Some(r.val)], res |-> Return(self)])

\* reconstruct(quadfun, gamma) on the object self of heap h: the heap
\* after the call and what the call returns (a reference to the copy) or
\* raises.  copy.copy makes a new object with the same fields; q is
\* assigned on the copy alone, and a copy the call does not return is
\* unreachable once it has raised.
reconstruct(name, h, self) ==
    LET new == Fresh(h)
        h1 == h @@ (new :> h[self])
    IN  Bind(reconstruct_q(name, h1[new]), LAMBDA r :
          IF r.kind = "raise"
          THEN [heap |-> Free(h1, {new}), res |-> r]
          ELSE [heap |-> [h1 EXCEPT ![new].q = Some(r.val)], res |-> Return(new)])

-----------------------------------------------------------------------------
(* Algorithm.__new__ and Propagator.__call__                               *)

\* Algorithm.__new__(cls, *args): line 17 hands the arguments on to
\* object.__new__, which accepts none beyond the class (the class overrides
\* __new__ and not __init__), so a construction with arguments raises
\* TypeError there and the dispatch to __call__ at line 20 is never
\* reached.  Without arguments the new instance is returned (line 22).
Algorithm_new(cls, args) ==
    IF Len(args) > 0 THEN Raise("TypeError")
    ELSE Return([class |-> cls])


Array1D(data) == [shape |-> <<Len(data)>>, data |-> data]
Array2D(rows, d) == [shape |-> <<Len(rows), d>>, data |-> rows]

StrictlyIncreasing(s) == \A i \in 1..(Len(s) - 1) : s[i] < s[i + 1]
TimeVals == 0..MaxT
YVals == 0..MaxY
TSeqs == {s \in UNION {[1..n -> TimeVals] : n \in 0..(MaxT + 1)} : StrictlyIncreasing(s)}

\* scipy.integrate.solve_ivp over [tspan[0], tspan[-1]] from y0.  The
\* solver is outside this source and its accepted steps depend on
\* eom_func, the tolerances and maxstep, so its answer is a choice: any
\* strictly increasing grid of two or more times from tspan[0] to
\* tspan[-1] (in the model's integer time unit), and any first state
\* component after y0.  sol.y holds one row of Len(y0) components per step
\* (int_sol.y.T); the right-hand sides tried keep the components after
\* the first constant.
SolveIvp(tspan, y0) ==
    UNION {{[t |-> ts, y |-> [k \in 1..Len(ts) |-> [y0 EXCEPT ![1] = first[k]]]] :
              first \in {f \in [1..Len(ts) -> YVals] : f[1] = y0[1]}} :
           ts \in {s \in TSeqs : Len(s) >= 2 /\ s[1] = tspan[1] /\ s[Len(s)] = tspan[2]}}

\* Propagator.__call__ on heap h with the solver's answer sol: quad is
\* None or Some(name).  q0 is accepted and not used.  The trajectory built
\* at line 50 is dropped when line 53 rebinds gamma to the reconstructed
\* copy.
Propagator_call(h, quad, tspan, y0, q0, sol) ==
    LET a == Fresh(h)
        h1 == h @@ (a :> Trajectory_new(<<sol.t, Array2D(sol.y, Len(y0))>>))
    IN  IF quad = None
        THEN [heap |-> h1, res |-> Return(a)]
        ELSE Bind(reconstruct(quad[1], h1, a), LAMBDA r :
               [heap |-> Free(r.heap, {a}), res |-> r.res])

-----------------------------------------------------------------------------
(* The caller: at most one trajectory bound to the name gamma (0 while no  *)
(* trajectory is bound), one call at a time                                *)

QueryTimes == (-1)..(MaxT + 1)

\* Quadrature and control histories handed to the constructor: one
\* 1-vector per sample.
QArg(n) == [i \in 1..n |-> <<R(MaxY)>>]
UArg(n) == [i \in 1..n |-> <<0>>]

\* The argument lists Trajectory(...) is built from: none, t alone, or t
\* with a state sample per time and optionally q and u.
InputArgs ==
    {<<>>}
    \cup {<<ts>> : ts \in TSeqs}
    \cup UNION {{<<ts, Array1D(d)>> : d \in [1..Len(ts) -> YVals]} : ts \in TSeqs}
    \cup UNION {{<<ts, Array1D(d), QArg(Len(ts))>> :
                    d \in [1..Len(ts) -> YVals]} : ts \in TSeqs}
    \cup UNION {{<<ts, Array1D(d), QArg(Len(ts)), UArg(Len(ts))>> :
                    d \in [1..Len(ts) -> YVals]} : ts \in TSeqs}

PropQuads == {None} \cup {Some(n) : n \in Quads}
PropY0s == {<<0>>, <<0, MaxY>>}
PropQ0s == {<<R(c)>> : c \in YVals}
PropSpans == {s \in TimeVals \X TimeVals : s[1] < s[2]}

\* The classes constructed and the argument lists they are constructed
\* with: none, one argument, or the Propagator's five.
Classes == {"Algorithm", "Propagator"}
NewArgs ==
    {<<>>, <<1>>}
    \cup {<<"eom", quad, tspan, y0, q0>> :
             quad \in PropQuads, tspan \in PropSpans, y0 \in PropY0s, q0 \in PropQ0s}

NoCall == [op |-> "none"]
HasRef(r) == r.op \in {"reconstruct", "Propagator"} /\ r.out.kind = "return"

Init ==
    /\ heap = <<>>
    /\ gamma = 0
    /\ ret = NoCall

\* gamma = Trajectory(*args)
Construct(args) ==
    /\ gamma = 0
    /\ ret = NoCall
    /\ heap' = heap @@ (Fresh(heap) :> Trajectory_new(args))
    /\ gamma' = Fresh(heap)
    /\ UNCHANGED ret

\* r = cls(*args): the one-step form, Propagator(eom, quad, tspan, y0, q0)
\* included.
Instantiate(cls, args) ==
    /\ gamma = 0
    /\ ret = NoCall
    /\ ret' = [op |-> "new", class |-> cls, args |-> args,
               out |-> Algorithm_new(cls, args)]
    /\ UNCHANGED <<heap, gamma>>

\* r = Propagator()(eom, quad, tspan, y0, q0): an instance is made without
\* arguments and then called.
Propagate(quad, tspan, y0, q0) ==
    /\ gamma = 0
    /\ ret = NoCall
    /\ \E obj \in {Algorithm_new("Propagator", <<>>)} :
       /\ obj.kind = "return"
       /\ \E sol \in SolveIvp(tspan, y0) :
          \E r \in {Propagator_call(heap, quad, tspan, y0, q0, sol)} :
            /\ heap' = r.heap
            /\ ret' = [op |-> "Propagator", quad |-> quad, tspan |-> tspan,
                       y0 |-> y0, q0 |-> q0, out |-> r.res]
    /\ UNCHANGED gamma

\* r = gamma(tau)
PointQuery(tau) ==
    /\ gamma # 0
    /\ ret = NoCall
    /\ ret' = [op |-> "call", tau |-> tau, out |-> Trajectory_call(heap[gamma], tau)]
    /\ UNCHANGED <<heap, gamma>>

\* r = len(gamma)
Length ==
    /\ gamma # 0
    /\ ret = NoCall
    /\ ret' = [op |-> "len", out |-> Return(Trajectory_len(heap[gamma]))]
    /\ UNCHANGED <<heap, gamma>>

\* r = integrate_quads(quad, [ta, tb], gamma)
IntegrateQuads(name, ta, tb) ==
    /\ gamma # 0
    /\ ret = NoCall
    /\ ret' = [op |-> "integrate_quads", quad |-> name, tspan |-> <<ta, tb>>,
               out |-> integrate_quads(name, <<ta, tb>>, heap[gamma])]
    /\ UNCHANGED <<heap, gamma>>

\* r = reconstruct(quad, gamma)
Reconstruct(name) ==
    /\ gamma # 0
    /\ ret = NoCall
    /\ \E r \in {reconstruct(name, heap, gamma)} :
       /\ heap' = r.heap
       /\ ret' = [op |-> "reconstruct", quad |-> name, out |-> r.res]
    /\ UNCHANGED gamma

\* gamma = r: the caller that had no trajectory keeps the one the call on
\* the Propagator instance returned (line 55).
Rebind ==
    /\ gamma = 0
    /\ HasRef(ret)
    /\ gamma' = ret.out.val
    /\ ret' = NoCall
    /\ UNCHANGED heap

\* The caller drops the result of the last call.
Discard ==
    /\ ret # NoCall
    /\ heap' = IF HasRef(ret) THEN Free(heap, {ret.out.val} \ {gamma}) ELSE heap
    /\ ret' = NoCall
    /\ UNCHANGED gamma

Next ==
    \/ \E args \in InputArgs : Construct(args)
    \/ \E cls \in Classes, args \in NewArgs : Instantiate(cls, args)
    \/ \E quad \in PropQuads, tspan \in PropSpans, y0 \in PropY0s, q0 \in PropQ0s :
          Propagate(quad, tspan, y0, q0)
    \/ \E tau \in QueryTimes : PointQuery(tau)
    \/ Length
    \/ \E name \in Quads, ta \in QueryTimes, tb \in QueryTimes : IntegrateQuads(name, ta, tb)
    \/ \E name \in Quads : Reconstruct(name)
    \/ Rebind
    \/ Discard

Spec == Init /\ [][Next]_vars

-----------------------------------------------------------------------------
(* Properties                                                              *)

\* The trajectory the last call was made on (calls other than Propagator).
G == heap[gamma]
\* The trajectory has at least k samples.
HasSamples(g, k) == g.t # None /\ Len(g.t[1]) >= k
\* The state samples are an array the point query can interpolate: a 1-D
\* array, or a 2-D array with at least two columns.
Usable(g) == g.y # None /\ (Len(g.y[1].shape) = 1 \/ g.y[1].shape[2] >= 2)
\* State sample i as the vector of rationals a point query returns.
StateAt(g, i) ==
    IF Len(g.y[1].shape) = 1 THEN <<R(g.y[1].data[i])>>
    ELSE [c \in 1..g.y[1].shape[2] |-> R(g.y[1].data[i][c])]
\* v equals the offset q0 in every component.
EqualsOffset(v, q0) == \A c \in 1..Len(v) : v[c] = At(q0, c)
IsZero(v) == \A c \in 1..Len(v) : v[c] = R(0)
InDomain(g, x) == g.t[1][1] <= x /\ x <= g.t[1][Len(g.t[1])]

\* The cumulative relation between an input trajectory g and the q of the
\* trajectory reconstruct returned for it.
Cumulative(g, out, name) ==
    /\ out.kind = "return"
    /\ LET t == g.t[1]
           q == heap[out.val].q[1]
           q0 == IF g.q = None THEN VZero(1) ELSE g.q[1][1]
       IN  /\ Len(q) = Len(t)
           /\ EqualsOffset(q[1], q0)
           /\ \A i \in 1..(Len(t) - 1) :
                 q[i + 1] = VAdd(q[i], integrate_quads(name, <<t[i], t[i + 1]>>, g).val)

\* C1: reconstruct on a trajectory with n >= 2 samples (times and states)
\* returns a trajectory whose q has n entries, q[0] = q0 (the input's q[0]
\* when its q is set, zero otherwise) and q[i+1] = q[i] + integrate_quads(
\* quad, [t[i], t[i+1]]) for every i.
C1_ReconstructCumulative ==
    (ret.op = "reconstruct" /\ HasSamples(G, 2) /\ G.y # None) =>
        Cumulative(G, ret.out, ret.quad)

\* The relation of C1 holds wherever the point query can interpolate the
\* state array (1-D, or 2-D with two or more columns); the trajectories
\* it fails on are those with an (n, 1) state array.
C1_CumulativeWhereQueryable ==
    (ret.op = "reconstruct" /\ HasSamples(G, 2) /\ Usable(G)) =>
        Cumulative(G, ret.out, ret.quad)

\* C2: integrate_quads with t_a < t[0] or t_b > t[-1] fails with 'Time
\* span out of integration bounds.' and the integrand is not evaluated at
\* any point before the failure.
C2_BoundsEnforced ==
    (/\ ret.op = "integrate_quads" /\ HasSamples(G, 1)
     /\ (ret.tspan[1] < G.t[1][1] \/ ret.tspan[2] > G.t[1][Len(G.t[1])])) =>
        /\ ret.out.kind = "raise"
        /\ ret.out.err = OutOfBounds
        /\ ret.out.evals = <<>>

\* C2 witness: a request that starts inside the domain of a usable
\* two-sample trajectory and ends beyond its last sample was refused.
C2_Witness ==
    /\ ret.op = "integrate_quads" /\ HasSamples(G, 2) /\ Usable(G)
    /\ InDomain(G, ret.tspan[1])
    /\ ret.tspan[2] > G.t[1][Len(G.t[1])]
    /\ ret.out.kind = "raise"

\* C3: integrate_quads returns a value only when both endpoints lie in
\* [t[0], t[-1]]: with either endpoint outside, in any order, it fails
\* with 'Time span out of integration bounds.'.
C3_BothEndpointsChecked ==
    (/\ ret.op = "integrate_quads" /\ HasSamples(G, 1) /\ Usable(G)
     /\ (~InDomain(G, ret.tspan[1]) \/ ~InDomain(G, ret.tspan[2]))) =>
        /\ ret.out.kind = "raise"
        /\ ret.out.err = OutOfBounds

\* C4: on a trajectory with at least one sample, integrate_quads(quad,
\* [t_a, t_a]) with t_a in [t[0], t[-1]] returns the zero vector.
C4_ZeroWidthIsZero ==
    (/\ ret.op = "integrate_quads" /\ HasSamples(G, 1) /\ Usable(G)
     /\ ret.tspan[1] = ret.tspan[2] /\ InDomain(G, ret.tspan[1])) =>
        /\ ret.out.kind = "return"
        /\ IsZero(ret.out.val)

\* C5: after reconstruct produced q, the integral over the full span
\* computed directly, integrate_quads(quad, [t[0], t[-1]]), equals
\* q[-1] - q0.
C5_FullSpanEqualsLast ==
    (ret.op = "reconstruct" /\ ret.out.kind = "return") =>
        LET t == G.t[1]
            q == heap[ret.out.val].q[1]
            direct == integrate_quads(ret.quad, <<t[1], t[Len(t)]>>, G)
        IN  /\ direct.kind = "return"
            /\ direct.val = VSub(q[Len(q)], q[1])

\* C6: the trajectory a call on a Propagator instance returns for a
\* quadrature integrand and an initial quadrature value q0 has q[0] = q0.
C6_PropagatorOffset ==
    (ret.op = "Propagator" /\ ret.quad # None /\ ret.out.kind = "return") =>
        EqualsOffset(heap[ret.out.val].q[1][1], ret.q0)

\* C7: a point query on a trajectory with zero samples (an empty time
\* sequence, or no time sequence at all) returns None and does not fail.
C7_EmptyQueryIsNone ==
    (ret.op = "call" /\ Trajectory_len(G) = 0) => ret.out = Return(None)

\* C8 as stated: a point query outside [t[0], t[-1]] returns the linear
\* extrapolation of the state through the two nearest samples.
C8_QueryExtrapolates ==
    (/\ ret.op = "call" /\ HasSamples(G, 2) /\ Usable(G)
     /\ ~InDomain(G, ret.tau)) =>
        LET t == G.t[1]
            n == Len(t)
            a == IF ret.tau > t[n] THEN n - 1 ELSE 1
            ya == StateAt(G, a)
            yb == StateAt(G, a + 1)
            line == [c \in 1..Len(ya) |->
                       RAdd(ya[c], RMul(RDiv(RSub(yb[c], ya[c]), R(t[a + 1] - t[a])),
                                        R(ret.tau - t[a])))]
        IN  /\ ret.out.kind = "return"
            /\ ret.out.val[1] = line

\* C8 as amended: a point query outside [t[0], t[-1]] is not guarded and
\* returns the state of the nearest end sample, y[-1] for tau > t[-1] and
\* y[0] for tau < t[0]; on an (n, 1) state array it fails with ValueError
\* as it does inside the range.
C8_QueryClamps ==
    (/\ ret.op = "call" /\ HasSamples(G, 1) /\ G.y # None
     /\ ~InDomain(G, ret.tau)) =>
        IF Usable(G)
        THEN /\ ret.out.kind = "return"
             /\ ret.out.val[1] = StateAt(G, IF ret.tau > G.t[1][Len(G.t[1])]
                                            THEN Len(G.t[1]) ELSE 1)
        ELSE ret.out = Raise("ValueError")

\* C8 witness: a query beyond the last sample of a trajectory whose last
\* two states differ returned a state.
C8_Witness ==
    /\ ret.op = "call" /\ HasSamples(G, 2) /\ Usable(G)
    /\ ret.tau > G.t[1][Len(G.t[1])]
    /\ StateAt(G, Len(G.t[1])) # StateAt(G, Len(G.t[1]) - 1)
    /\ ret.out.kind = "return"

\* C9: for an in-range request t[0] <= t_a <= t_b <= t[-1] the evaluation
\* grid is non-empty and strictly increasing, starts at t_a, ends at t_b,
\* and its interior points are the sample times strictly between them.
C9_GridWellFormed ==
    (/\ ret.op = "integrate_quads" /\ HasSamples(G, 1) /\ Usable(G)
     /\ InDomain(G, ret.tspan[1]) /\ InDomain(G, ret.tspan[2])
     /\ ret.tspan[1] <= ret.tspan[2]) =>
        /\ ret.out.x_interp # None
        /\ LET x == ret.out.x_interp[1]
               t == G.t[1]
           IN  /\ Len(x) >= 1
               /\ StrictlyIncreasing(x)
               /\ x[1] = ret.tspan[1]
               /\ x[Len(x)] = ret.tspan[2]
               /\ {x[k] : k \in 2..(Len(x) - 1)} =
                     {t[k] : k \in {j \in 1..Len(t) : ret.tspan[1] < t[j] /\ t[j] < ret.tspan[2]}}

\* C10: reconstruct leaves its input as it was, whether it returns or
\* fails; what it returns is another object whose t, y and u are the
\* input's, with q set.
C10_ReconstructFrame ==
    [][(ret.op = "none" /\ ret'.op = "reconstruct") =>
          /\ gamma' = gamma
          /\ heap'[gamma] = heap[gamma]
          /\ (ret'.out.kind = "raise" => heap' = heap)
          /\ (ret'.out.kind = "return" =>
                /\ ret'.out.val # gamma
                /\ ret'.out.val \notin DOMAIN heap
                /\ DOMAIN heap' = DOMAIN heap \cup {ret'.out.val}
                /\ heap'[ret'.out.val].t = heap[gamma].t
                /\ heap'[ret'.out.val].y = heap[gamma].y
                /\ heap'[ret'.out.val].u = heap[gamma].u
                /\ heap'[ret'.out.val].q # None)]_vars

\* C10 witness: reconstruct returned for an input whose q is (still) unset.
C10_Witness ==
    /\ ret.op = "reconstruct" /\ ret.out.kind = "return"
    /\ G.q = None
    /\ heap[ret.out.val].q # None

====
